---- MODULE Spec2Model ----
(***************************************************************************)
(* A model of src/src/webfishing_player.rs: the construction of a          *)
(* WebfishingPlayer (transposition shift, merged event heap) and the       *)
(* playback loop of WebfishingPlayer::play (tick pacing, pause, cancel,    *)
(* looping, string assignment, actuator output).                           *)
(***************************************************************************)
EXTENDS Integers, Sequences, FiniteSets, Bags, TLC

VARIABLES
    smf,                    \* the parsed score: [timing, ticks_per_beat, tracks]
    settings_tracks,        \* PlayerSettings.tracks: [some, indices] (None: some = FALSE)
    loop_midi,
    should_sing,
    sing_above,
    playback_speed,
    input_sleep_duration,
    pc,                     \* position of the program (construction / play)
    shift,
    micros_per_tick,
    events,                 \* BinaryHeap<TimedEvent>, as its backing vector
    tracks,                 \* WebfishingPlayer.tracks
    cur_string_positions,   \* HashMap<i32, i32>: string -> fret last set
    strings_played,         \* [bool; 6], indexed 0..5
    last_string_usage_time, \* [Instant; 6], indexed 0..5
    now,                    \* the monotonic clock read by Instant::now()
    paused,
    rshift_pressed,
    song_elapsed_micros,
    final_tick,             \* play: let final_tick
    last_tick,              \* play: let mut last_tick
    timed_event,            \* play: the event popped last
    current_tick,           \* play: the index of the tick-sleep loop
    position,               \* the progress bar's position (pb.set_position)
    note,                   \* the pitch play_note handed to find_best_string in the last step
    emitted,                \* the actuator actions emitted by the last step
    input,                  \* the last step's check_inputs: [checked, keys]
    group_strums,           \* history: the strings strummed since strings_played was reset
    ticks_while_paused,     \* history: the ticks slept since the paused flag was last false
    polls                   \* history: the pause key as the polls of check_inputs saw it

vars == << smf, settings_tracks, loop_midi, should_sing, sing_above, playback_speed,
           input_sleep_duration, pc, shift, micros_per_tick, events, tracks,
           cur_string_positions, strings_played, last_string_usage_time, now,
           paused, rshift_pressed, song_elapsed_micros, final_tick, last_tick,
           timed_event, current_tick, position, note, emitted, input, group_strums,
           ticks_while_paused, polls >>

config_vars == << smf, settings_tracks, loop_midi, should_sing, sing_above,
                  playback_speed, input_sleep_duration >>

(***************************************************************************)
(* Program constants                                                       *)
(***************************************************************************)
MIN_NOTE == 40
MAX_NOTE == 79
NumStrings == 6
MinShift == -127
MaxShift == 127
I8Max == 127

(***************************************************************************)
(* Bounds of the model                                                     *)
(***************************************************************************)
MaxClock == 4       \* find_best_string calls explored (reads of Instant::now())
MaxNotes == 3       \* length of the note lists of ShiftScores
MaxTrackLen == 2    \* longest track of MergeScores

(***************************************************************************)
(* Score model: midly's TrackEvent, reduced to the fields the player reads *)
(***************************************************************************)
Tempo(d, t)      == [delta |-> d, kind |-> "Tempo",   key |-> 0, vel |-> 0, tempo |-> t]
OtherMeta(d)     == [delta |-> d, kind |-> "Meta",    key |-> 0, vel |-> 0, tempo |-> 0]
NoteOn(d, k, v)  == [delta |-> d, kind |-> "NoteOn",  key |-> k, vel |-> v, tempo |-> 0]
NoteOff(d, k)    == [delta |-> d, kind |-> "NoteOff", key |-> k, vel |-> 0, tempo |-> 0]

MetaKinds == {"Tempo", "Meta"}

IsMetaTempoOnly(e) == e.kind = "Tempo"
\* matches!(event.kind, TrackEventKind::Meta(_))
IsMeta(e) == e.kind \in MetaKinds

NoEvent == [absolute_time |-> 0, event |-> [delta |-> 0, kind |-> "None", key |-> 0,
                                            vel |-> 0, tempo |-> 0], track |-> 0]

Abs(x) == IF x < 0 THEN -x ELSE x

(***************************************************************************)
(* The merge queue: std BinaryHeap over TimedEvent's Ord                   *)
(***************************************************************************)
\* a <= b in TimedEvent's order: cmp is other.absolute_time.cmp(&self.absolute_time)
TimedEventLeNoReverse(a, b) == a.absolute_time <= b.absolute_time
TimedEventLe(a, b) == a.absolute_time >= b.absolute_time

\* BinaryHeap::sift_up with the element elt held out of the hole at pos (0-based)
RECURSIVE SiftUp(_, _, _, _)
SiftUp(data, elt, start, pos) ==
    IF pos > start
    THEN LET parent == (pos - 1) \div 2 IN
         IF TimedEventLe(elt, data[parent + 1])
         THEN [data EXCEPT ![pos + 1] = elt]
         ELSE SiftUp([data EXCEPT ![pos + 1] = data[parent + 1]], elt, start, parent)
    ELSE [data EXCEPT ![pos + 1] = elt]

\* BinaryHeap::push
HeapPush(data, item) == SiftUp(Append(data, item), item, 0, Len(data))

\* BinaryHeap::sift_down_to_bottom(0): the hole goes down to a leaf along the
\* greater children (the right one on a tie), then the element sifts up
RECURSIVE SiftDownToBottom(_, _, _)
SiftDownToBottom(data, elt, pos) ==
    LET end   == Len(data)
        child == 2 * pos + 1
    IN  IF child <= end - 2
        THEN LET c == IF TimedEventLe(data[child + 1], data[child + 2])
                      THEN child + 1 ELSE child
             IN  SiftDownToBottom([data EXCEPT ![pos + 1] = data[c + 1]], elt, c)
        ELSE IF child = end - 1
             THEN SiftUp([data EXCEPT ![pos + 1] = data[child + 1]], elt, 0, child)
             ELSE SiftUp(data, elt, 0, pos)

\* BinaryHeap::pop on a non-empty heap: the greatest element and the heap left
HeapPopItem(data) == data[1]
HeapPopRest(data) ==
    LET item == data[Len(data)]
        rest == SubSeq(data, 1, Len(data) - 1)
    IN  IF rest = << >> THEN << >> ELSE SiftDownToBottom(rest, item, 0)

\* self.events.iter().last(): the last element of the backing vector
HeapIterLast(data) == data[Len(data)]

(***************************************************************************)
(* prepare_events                                                          *)
(***************************************************************************)
\* the inner loop over one track, from its event number i on
RECURSIVE PushTrack(_, _, _, _, _, _)
PushTrack(heap, track, track_num, should_play, i, absolute_time) ==
    IF i > Len(track) THEN heap
    ELSE LET event == track[i]
             t     == absolute_time + event.delta
         IN  IF ~should_play /\ ~IsMeta(event)
             THEN PushTrack(heap, track, track_num, should_play, i + 1, t)
             ELSE PushTrack(HeapPush(heap, [absolute_time |-> t, event |-> event,
                                            track |-> track_num]),
                            track, track_num, should_play, i + 1, t)

ShouldPlayEmptyIsAll(selection, track_num) ==
    selection = {} \/ track_num \in selection
\* self.tracks.contains(&track_num)
ShouldPlay(selection, track_num) == track_num \in selection

RECURSIVE PushTracks(_, _, _, _)
PushTracks(heap, score_tracks, selection, n) ==
    IF n > Len(score_tracks) THEN heap
    ELSE PushTracks(PushTrack(heap, score_tracks[n], n - 1,
                              ShouldPlay(selection, n - 1), 1, 0),
                    score_tracks, selection, n + 1)

prepare_events(heap, score, selection) == PushTracks(heap, score.tracks, selection, 1)

(***************************************************************************)
(* get_notes and calculate_optimal_shift                                   *)
(***************************************************************************)
RECURSIVE Flatten(_)
Flatten(ss) == IF ss = << >> THEN << >> ELSE Head(ss) \o Flatten(Tail(ss))

RECURSIVE NoteOnKeys(_)
NoteOnKeys(es) ==
    IF es = << >> THEN << >>
    ELSE (IF Head(es).kind = "NoteOn" THEN << Head(es).key >> ELSE << >>)
         \o NoteOnKeys(Tail(es))

get_notes(score) == NoteOnKeys(Flatten(score.tracks))

\* the filter(..).count() of one shift
PlayableNotes(notes, s) ==
    Cardinality({i \in DOMAIN notes : notes[i] + s >= MIN_NOTE /\ notes[i] + s <= MAX_NOTE})

BetterShiftNoTie(playable, max_playable, s, best) == playable > max_playable
\* the condition under which the scan replaces the best shift
BetterShift(playable, max_playable, s, best) ==
    playable > max_playable \/ (playable = max_playable /\ Abs(s) < Abs(best))

\* one pass of the loop body: st is << best_shift, max_playable_notes >>
ShiftStep(notes, s, st) ==
    LET playable_notes == PlayableNotes(notes, s) IN
    IF BetterShift(playable_notes, st[2], s, st[1])
    THEN << s, playable_notes >>
    ELSE st

\* the passes for shift in lo..=hi, in ascending order, from the state st (the
\* range is halved, and the first half evaluated first, to keep the evaluation flat)
RECURSIVE ShiftScan(_, _, _, _)
ShiftScan(notes, lo, hi, st) ==
    IF lo = hi THEN ShiftStep(notes, lo, st)
    ELSE LET mid   == lo + ((hi - lo) \div 2)
             first == ShiftScan(notes, lo, mid, st)
         IN  IF first = first THEN ShiftScan(notes, mid + 1, hi, first) ELSE first

calculate_optimal_shift(notes) == ShiftScan(notes, MinShift, MaxShift, << 0, 0 >>)[1]

(***************************************************************************)
(* find_best_string                                                        *)
(***************************************************************************)
Strings == 0 .. (NumStrings - 1)
FretsPerString == 16

\* the lowest note of each row of string_notes (low E, A, D, G, B, high E)
StringOpenNote(s) ==
    CASE s = 0 -> 40 [] s = 1 -> 45 [] s = 2 -> 50 [] s = 3 -> 55 [] s = 4 -> 59 [] s = 5 -> 64

\* string_notes[s][f]
string_notes(s, f) == StringOpenNote(s) + f

StringCovers(s, n) == \E f \in 0 .. (FretsPerString - 1) : string_notes(s, f) = n
\* notes.iter().position(|&n| n == int_note)
FretOf(s, n) == CHOOSE f \in 0 .. (FretsPerString - 1) : string_notes(s, f) = n

SkipStringIgnoresPlayed(played, s) == FALSE
\* if self.strings_played[string_index] { continue; }
SkipString(played, s) == played[s]

\* the candidates pushed by the loop over the strings, from string s on
RECURSIVE Candidates(_, _, _)
Candidates(n, played, s) ==
    IF s >= NumStrings THEN << >>
    ELSE (IF ~SkipString(played, s) /\ StringCovers(s, n)
          THEN << << s, FretOf(s, n) >> >> ELSE << >>)
         \o Candidates(n, played, s + 1)

RECURSIVE InsertByKeyUnstable(_, _, _)
InsertByKeyUnstable(sorted, x, usage) ==
    IF sorted = << >> THEN << x >>
    ELSE IF usage[Head(sorted)[1]] < usage[x[1]]
         THEN << Head(sorted) >> \o InsertByKeyUnstable(Tail(sorted), x, usage)
         ELSE << x >> \o sorted
\* the place of x in a sorted list: after every element whose key is not greater
RECURSIVE InsertByKey(_, _, _)
InsertByKey(sorted, x, usage) ==
    IF sorted = << >> THEN << x >>
    ELSE IF usage[Head(sorted)[1]] <= usage[x[1]]
         THEN << Head(sorted) >> \o InsertByKey(Tail(sorted), x, usage)
         ELSE << x >> \o sorted

\* candidates.sort_by_key(last_string_usage_time): a stable sort
RECURSIVE SortByUsage(_, _)
SortByUsage(cands, usage) ==
    IF cands = << >> THEN << >>
    ELSE InsertByKey(SortByUsage(SubSeq(cands, 1, Len(cands) - 1), usage),
                     cands[Len(cands)], usage)

FindBestStringReusesPlayed(n, played, usage, current_time) ==
    LET candidates == SortByUsage(Candidates(n, played, 0), usage)
        covering   == SortByUsage(Candidates(n, [s \in Strings |-> FALSE], 0), usage)
        chosen     == IF candidates # << >> THEN candidates ELSE covering
    IN  IF chosen # << >>
        THEN [found |-> TRUE, string |-> chosen[1][1], fret |-> chosen[1][2],
              usage |-> [usage EXCEPT ![chosen[1][1]] = current_time]]
        ELSE [found |-> FALSE, string |-> -1, fret |-> -1, usage |-> usage]
\* find_best_string: the position found (found = FALSE for None) and the
\* last_string_usage_time it leaves
find_best_string(n, played, usage, current_time) ==
    LET candidates == SortByUsage(Candidates(n, played, 0), usage) IN
    IF candidates # << >>
    THEN [found |-> TRUE, string |-> candidates[1][1], fret |-> candidates[1][2],
          usage |-> [usage EXCEPT ![candidates[1][1]] = current_time]]
    ELSE [found |-> FALSE, string |-> -1, fret |-> -1, usage |-> usage]

(***************************************************************************)
(* set_fret, strum_string, sing, play_note                                 *)
(***************************************************************************)
\* self.cur_string_positions.get(&string).unwrap_or(&-1)
FretLastSet(positions, string) ==
    IF string \in DOMAIN positions THEN positions[string] ELSE -1

SetFretAlwaysEmits(positions, string, fret) ==
    [positions |-> [s \in (DOMAIN positions) \cup {string} |->
                        IF s = string THEN fret ELSE positions[s]],
     emitted |-> << << "fret", string, fret >> >>]
\* set_fret: the positions it leaves and the positioning action it sends, if any
set_fret(positions, string, fret) ==
    IF FretLastSet(positions, string) = fret
    THEN [positions |-> positions, emitted |-> << >>]
    ELSE [positions |-> [s \in (DOMAIN positions) \cup {string} |->
                            IF s = string THEN fret ELSE positions[s]],
          emitted |-> << << "fret", string, fret >> >>]

\* strum_string: a key press and release for strings 0..5, nothing otherwise
strum_string(string) ==
    IF string \in Strings THEN << << "strum", string >> >> ELSE << >>

ClampLowOnly(n) == IF n < MIN_NOTE THEN MIN_NOTE ELSE n
\* note.clamp(MIN_NOTE, MAX_NOTE)
Clamp(n) == IF n < MIN_NOTE THEN MIN_NOTE ELSE IF n > MAX_NOTE THEN MAX_NOTE ELSE n

\* play_note on the u8 pitch n: the clamped note, the string state it leaves
\* and the actuator actions it emits
play_note(n, positions, played, usage, current_time, sing, above) ==
    LET clamped == Clamp(n)
        best    == find_best_string(clamped, played, usage, current_time)
        fretted == set_fret(positions, best.string, best.fret)
        sung    == IF sing /\ clamped >= above THEN << << "sing" >> >> ELSE << >>
    IN  IF best.found
        THEN [note |-> clamped, found |-> TRUE, string |-> best.string,
              positions |-> fretted.positions,
              played |-> [played EXCEPT ![best.string] = TRUE],
              usage |-> best.usage,
              emitted |-> fretted.emitted \o strum_string(best.string) \o sung]
        ELSE [note |-> clamped, found |-> FALSE, string |-> -1,
              positions |-> positions, played |-> played, usage |-> best.usage,
              emitted |-> sung]

(***************************************************************************)
(* The transposition of play: (key.as_int() as i8 + self.shift) as u8      *)
(***************************************************************************)
I8Overflows(x) == x > I8Max \/ x < -I8Max - 1
WrapI8(x) == ((x + 128) % 256) - 128
AsU8(x) == x % 256
Transposed(key, s) == AsU8(WrapI8(key + s))

(***************************************************************************)
(* check_inputs                                                            *)
(***************************************************************************)
KeySets == SUBSET {"Escape", "RShift"}
NoCheck == [checked |-> FALSE, keys |-> {}]
Checked(keys) == [checked |-> TRUE, keys |-> keys]

CheckInputsLevel(keys, is_paused, pressed) ==
    IF "Escape" \in keys
    THEN [quit |-> TRUE, paused |-> is_paused, rshift_pressed |-> pressed]
    ELSE IF "RShift" \in keys
         THEN [quit |-> FALSE, paused |-> ~is_paused, rshift_pressed |-> TRUE]
         ELSE [quit |-> FALSE, paused |-> is_paused, rshift_pressed |-> FALSE]
CheckInputsNoQuit(keys, is_paused, pressed) ==
    IF "RShift" \in keys
    THEN [quit |-> FALSE, paused |-> IF pressed THEN is_paused ELSE ~is_paused,
          rshift_pressed |-> TRUE]
    ELSE [quit |-> FALSE, paused |-> is_paused, rshift_pressed |-> FALSE]
\* check_inputs on the keys device_state.get_keys() returns: whether the user
\* quits, and the paused flag and rshift_pressed it leaves
check_inputs(keys, is_paused, pressed) ==
    IF "Escape" \in keys
    THEN [quit |-> TRUE, paused |-> is_paused, rshift_pressed |-> pressed]
    ELSE IF "RShift" \in keys
         THEN [quit |-> FALSE, paused |-> IF pressed THEN is_paused ELSE ~is_paused,
               rshift_pressed |-> TRUE]
         ELSE [quit |-> FALSE, paused |-> is_paused, rshift_pressed |-> FALSE]

\* the pause key over the polls that read it: whether the last one saw it held,
\* and the parity of the polls that saw it held after a poll that did not (a
\* poll that sees Escape returns before it reads the pause key)
Observe(h, keys) ==
    IF "Escape" \in keys THEN h
    ELSE [held   |-> "RShift" \in keys,
          parity |-> IF "RShift" \in keys /\ ~h.held THEN ~h.parity ELSE h.parity]

(***************************************************************************)
(* The scores and settings explored                                        *)
(***************************************************************************)
Score(timing, ppq, score_tracks) ==
    [timing |-> timing, ticks_per_beat |-> ppq, tracks |-> score_tracks]

None == [some |-> FALSE, indices |-> {}]
Some(indices) == [some |-> TRUE, indices |-> indices]

\* the pitches 45, 50, 55 at tick 0 in one track, the pitch 55 again 3 ticks later
ChordScore ==
    Score("Metrical", 2, << << NoteOn(0, 45, 1), NoteOn(0, 50, 1), NoteOn(0, 55, 1),
                               NoteOn(3, 55, 1) >> >>)

\* scores played through by Spec
PlayScores == {
    ChordScore,
    \* a chord of three notes at tick 0, a fourth note of the same pitch 3 ticks later
    Score("Metrical", 2, << << Tempo(0, 4), NoteOn(0, 45, 1), NoteOn(0, 50, 1), NoteOn(3, 45, 1) >>,
                            << NoteOn(0, 55, 1) >> >>),
    \* a pitch that only one string covers, three times in one group
    Score("Metrical", 2, << << NoteOn(1, 79, 1), NoteOn(0, 79, 1) >>,
                            << Tempo(0, 5), NoteOn(1, 45, 0), NoteOff(2, 79) >> >>),
    \* one note at tick 0, which only the low E string covers
    Score("Metrical", 2, << << NoteOn(0, 40, 1) >>, << OtherMeta(0) >> >>),
    \* events whose ticks coincide across the tracks
    Score("Metrical", 2, << << OtherMeta(0), NoteOff(1, 50) >>,
                            << Tempo(1, 6), NoteOn(0, 100, 1), OtherMeta(1) >> >>),
    \* the last event pushed is not the latest one
    Score("Metrical", 2, << << Tempo(1, 3), NoteOn(2, 20, 1) >>, << NoteOn(2, 20, 1) >> >>),
    \* no event at all
    Score("Metrical", 2, << << >>, << >> >>),
    \* SMPTE timecode timing
    Score("Timecode", 0, << << Tempo(0, 4), NoteOn(1, 45, 1) >>, << >> >>)
}

\* the sequences over S of length at most n
SeqsUpTo(S, n) == UNION {[1 .. m -> S] : m \in 0 .. n}

\* scores of SpecShift: one track of note-on events, one tick apart
NoteKeys == {0, 20, 39, 40, 79, 80, 127}
ShiftScores ==
    {Score("Metrical", 2, << [i \in DOMAIN ks |-> NoteOn(1, ks[i], 1)] >>) :
        ks \in SeqsUpTo(NoteKeys, MaxNotes)}

\* scores of SpecMerge: two tracks of meta and note events
MergeDeltas == {0, 1}
MergeEvents ==
    {OtherMeta(d) : d \in MergeDeltas} \cup {NoteOn(d, 60, 1) : d \in MergeDeltas}
MergeScores ==
    {Score("Metrical", 2, << a, b >>) :
        a \in SeqsUpTo(MergeEvents, MaxTrackLen), b \in SeqsUpTo(MergeEvents, MaxTrackLen)}
MergeSelections == {None, Some({}), Some({0}), Some({1}), Some({0, 1})}

PlaySelections == {None, Some({0}), Some({1}), Some({0, 1})}
Speeds == {1, 2}
SingThresholds == {50}
InputSleeps == {1}

\* the fields of the player before WebfishingPlayer::new has run
Unconstructed ==
    /\ pc = "Unconstructed"
    /\ shift = 0
    /\ micros_per_tick = 0
    /\ events = << >>
    /\ tracks = {}
    /\ cur_string_positions = << >>
    /\ strings_played = [s \in Strings |-> FALSE]
    /\ last_string_usage_time = [s \in Strings |-> 0]
    /\ now = 0
    /\ paused = FALSE
    /\ rshift_pressed = FALSE
    /\ song_elapsed_micros = 0
    /\ final_tick = 0
    /\ last_tick = 0
    /\ timed_event = NoEvent
    /\ current_tick = 0
    /\ position = 0
    /\ note = -1
    /\ emitted = << >>
    /\ input = NoCheck
    /\ group_strums = << >>
    /\ ticks_while_paused = 0
    /\ polls = [held |-> FALSE, parity |-> FALSE]

Init ==
    /\ smf \in PlayScores
    /\ settings_tracks \in PlaySelections
    /\ loop_midi \in BOOLEAN
    /\ should_sing \in BOOLEAN
    /\ sing_above \in SingThresholds
    /\ playback_speed \in Speeds
    /\ input_sleep_duration \in InputSleeps
    /\ Unconstructed

(***************************************************************************)
(* WebfishingPlayer::new                                                   *)
(***************************************************************************)
\* settings.tracks.unwrap_or(Vec::new())
UnwrapOrEmpty(opt) == IF opt.some THEN opt.indices ELSE {}

New ==
    /\ pc = "Unconstructed"
    /\ \E backend_ok \in BOOLEAN :
         IF ~backend_ok
         THEN \* XOpenDisplay returns null (Err), or Enigo::new fails (unwrap)
              /\ pc' = "ConstructionFailed"
              /\ UNCHANGED << shift, tracks, cur_string_positions, events >>
         ELSE /\ pc' = "Idle"
              /\ shift' = calculate_optimal_shift(get_notes(smf))
              /\ tracks' = UnwrapOrEmpty(settings_tracks)
              /\ cur_string_positions' = [i \in Strings |-> 0]
              /\ events' = prepare_events(<< >>, smf, UnwrapOrEmpty(settings_tracks))
    /\ note' = -1
    /\ emitted' = << >>
    /\ UNCHANGED << config_vars, micros_per_tick, strings_played, last_string_usage_time,
                    now, paused, rshift_pressed, song_elapsed_micros, final_tick,
                    last_tick, timed_event, current_tick, position, input, group_strums,
                    ticks_while_paused, polls >>

(***************************************************************************)
(* WebfishingPlayer::play                                                  *)
(***************************************************************************)
\* lines 320-368: the timing mode, the reset of the guitar, final_tick
PlayStart ==
    /\ pc = "Idle"
    /\ note' = -1
    /\ IF smf.timing # "Metrical"
       THEN /\ pc' = "PanicUnimplemented"
            /\ emitted' = << >>
            /\ UNCHANGED << cur_string_positions, final_tick >>
       ELSE LET fretted == set_fret(cur_string_positions, NumStrings, 0) IN
            /\ cur_string_positions' = fretted.positions
            /\ emitted' = fretted.emitted
            /\ IF events = << >>
               THEN /\ pc' = "PanicNoEvents"
                    /\ UNCHANGED final_tick
               ELSE /\ pc' = "LoopStart"
                    /\ final_tick' = HeapIterLast(events).absolute_time
    /\ UNCHANGED << config_vars, shift, micros_per_tick, events, tracks, strings_played,
                    last_string_usage_time, now, paused, rshift_pressed,
                    song_elapsed_micros, last_tick, timed_event, current_tick, position,
                    input, group_strums, ticks_while_paused, polls >>

LoopStartKeepsElapsed ==
    /\ pc = "LoopStart"
    /\ pc' = "Running"
    /\ last_tick' = 0
    /\ note' = -1
    /\ emitted' = << >>
    /\ input' = NoCheck
    /\ UNCHANGED << config_vars, shift, micros_per_tick, events, tracks,
                    cur_string_positions, strings_played, last_string_usage_time, now,
                    paused, rshift_pressed, final_tick, timed_event, current_tick,
                    position, song_elapsed_micros, group_strums, ticks_while_paused,
                    polls >>
\* lines 369-401: the head of the loop
LoopStart ==
    /\ pc = "LoopStart"
    /\ pc' = "Running"
    /\ last_tick' = 0
    /\ song_elapsed_micros' = 0
    /\ note' = -1
    /\ emitted' = << >>
    /\ input' = NoCheck
    /\ UNCHANGED << config_vars, shift, micros_per_tick, events, tracks,
                    cur_string_positions, strings_played, last_string_usage_time, now,
                    paused, rshift_pressed, final_tick, timed_event, current_tick,
                    position, group_strums, ticks_while_paused, polls >>

\* lines 403-411 (and 431 when there is no tick to wait): pop an event, check the
\* inputs, compute wait_ticks
PopEvent ==
    /\ pc = "Running"
    /\ events # << >>
    /\ \E keys \in KeySets, overflow_checks \in BOOLEAN :
         LET te == HeapPopItem(events)
             ci == check_inputs(keys, paused, rshift_pressed)
         IN  /\ events' = HeapPopRest(events)
             /\ timed_event' = te
             /\ input' = Checked(keys)
             /\ polls' = Observe(polls, keys)
             /\ paused' = ci.paused
             /\ rshift_pressed' = ci.rshift_pressed
             /\ ticks_while_paused' = IF ci.paused THEN ticks_while_paused ELSE 0
             /\ IF ci.quit
                THEN /\ pc' = "Interrupted"
                     /\ UNCHANGED << strings_played, group_strums, current_tick, last_tick >>
                ELSE IF te.absolute_time < last_tick /\ overflow_checks
                THEN \* u64 subtraction with overflow checks
                     /\ pc' = "PanicSubOverflow"
                     /\ UNCHANGED << strings_played, group_strums, current_tick, last_tick >>
                ELSE IF te.absolute_time > last_tick
                THEN /\ strings_played' = [s \in Strings |-> FALSE]
                     /\ group_strums' = << >>
                     /\ current_tick' = last_tick
                     /\ pc' = "Waiting"
                     /\ UNCHANGED last_tick
                ELSE IF te.absolute_time = last_tick
                THEN \* wait_ticks = 0
                     /\ pc' = "PauseCheck"
                     /\ UNCHANGED << strings_played, group_strums, current_tick, last_tick >>
                ELSE \* wait_ticks wrapped: it is > 0 and the range of ticks is empty
                     /\ strings_played' = [s \in Strings |-> FALSE]
                     /\ group_strums' = << >>
                     /\ last_tick' = te.absolute_time
                     /\ pc' = "PauseCheck"
                     /\ UNCHANGED current_tick
    /\ note' = -1
    /\ emitted' = << >>
    /\ UNCHANGED << config_vars, shift, micros_per_tick, tracks, cur_string_positions,
                    last_string_usage_time, now, song_elapsed_micros, final_tick,
                    position >>

IsPausedNever(flag) == FALSE
\* is_paused: self.paused.load(Relaxed)
is_paused(flag) == flag

TickMicrosIgnoresSpeed(mpt, speed) == mpt
\* (self.micros_per_tick as f64 / playback_speed) as u64
TickMicros(mpt, speed) == mpt \div speed

\* lines 414-431: one pass of the loop that sleeps one tick at a time
Tick ==
    /\ pc = "Waiting"
    /\ \E keys \in KeySets :
         LET ci == check_inputs(keys, paused, rshift_pressed) IN
         /\ position' = current_tick + 1
         /\ song_elapsed_micros' =
                song_elapsed_micros + TickMicros(micros_per_tick, playback_speed)
         /\ input' = Checked(keys)
         /\ polls' = Observe(polls, keys)
         /\ paused' = ci.paused
         /\ rshift_pressed' = ci.rshift_pressed
         /\ ticks_while_paused' =
                IF ~ci.paused THEN 0
                ELSE IF paused THEN ticks_while_paused + 1 ELSE ticks_while_paused
         /\ IF ci.quit
            THEN /\ pc' = "Interrupted"
                 /\ UNCHANGED << current_tick, last_tick >>
            ELSE /\ current_tick' = current_tick + 1
                 /\ IF current_tick + 1 < timed_event.absolute_time
                    THEN /\ pc' = "Waiting"
                         /\ UNCHANGED last_tick
                    ELSE /\ pc' = "PauseCheck"
                         /\ last_tick' = timed_event.absolute_time
    /\ note' = -1
    /\ emitted' = << >>
    /\ UNCHANGED << config_vars, shift, micros_per_tick, events, tracks,
                    cur_string_positions, strings_played, last_string_usage_time, now,
                    final_tick, timed_event, group_strums >>

\* lines 435-441: one pass of the loop that waits while paused
PausePoll ==
    /\ pc = "PauseCheck"
    /\ is_paused(paused)
    /\ \E keys \in KeySets :
         LET ci == check_inputs(keys, paused, rshift_pressed) IN
         /\ input' = Checked(keys)
         /\ polls' = Observe(polls, keys)
         /\ paused' = ci.paused
         /\ rshift_pressed' = ci.rshift_pressed
         /\ ticks_while_paused' = IF ci.paused THEN ticks_while_paused ELSE 0
         /\ pc' = IF ci.quit THEN "Interrupted" ELSE "PauseCheck"
    /\ note' = -1
    /\ emitted' = << >>
    /\ UNCHANGED << config_vars, shift, micros_per_tick, events, tracks,
                    cur_string_positions, strings_played, last_string_usage_time, now,
                    song_elapsed_micros, final_tick, last_tick, timed_event,
                    current_tick, position, group_strums >>

NoteOnAnyVelocity(e) == e.kind = "NoteOn"
\* MidiMessage::NoteOn { key, vel } with vel.as_int() > 0
NoteOnSounds(e) == e.kind = "NoteOn" /\ e.vel > 0

\* the strings of the strum actions among the actions acts
RECURSIVE StrumsOf(_)
StrumsOf(acts) ==
    IF acts = << >> THEN << >>
    ELSE (IF Head(acts)[1] = "strum" THEN << Head(acts)[2] >> ELSE << >>)
         \o StrumsOf(Tail(acts))

\* lines 443-473: the match on the event's kind, once the player is not paused
Dispatch ==
    /\ pc = "PauseCheck"
    /\ ~is_paused(paused)
    /\ LET e == timed_event.event IN
       IF e.kind = "Tempo"
       THEN /\ IF smf.ticks_per_beat = 0
               THEN /\ pc' = "PanicDivideByZero"
                    /\ UNCHANGED << micros_per_tick, position >>
               ELSE /\ micros_per_tick' = e.tempo \div smf.ticks_per_beat
                    /\ position' = timed_event.absolute_time
                    /\ pc' = "Running"
            /\ note' = -1
            /\ emitted' = << >>
            /\ UNCHANGED << cur_string_positions, strings_played, group_strums,
                            last_string_usage_time, now, song_elapsed_micros >>
       ELSE IF NoteOnSounds(e)
       THEN /\ now < MaxClock
            /\ \E overflow_checks \in BOOLEAN :
                 IF I8Overflows(e.key + shift) /\ overflow_checks
                 THEN \* i8 addition with overflow checks
                      /\ pc' = "PanicAddOverflow"
                      /\ note' = -1
                      /\ emitted' = << >>
                      /\ UNCHANGED << cur_string_positions, strings_played, group_strums,
                                      last_string_usage_time, now, song_elapsed_micros,
                                      position >>
                 ELSE LET played == play_note(Transposed(e.key, shift),
                                              cur_string_positions, strings_played,
                                              last_string_usage_time, now + 1,
                                              should_sing, sing_above)
                      IN  /\ now' = now + 1
                          /\ note' = played.note
                          /\ emitted' = played.emitted
                          /\ cur_string_positions' = played.positions
                          /\ strings_played' = played.played
                          /\ group_strums' = group_strums \o StrumsOf(played.emitted)
                          /\ last_string_usage_time' = played.usage
                          /\ song_elapsed_micros' =
                                 song_elapsed_micros + input_sleep_duration * 1000
                          /\ position' = timed_event.absolute_time
                          /\ pc' = "Running"
            /\ UNCHANGED micros_per_tick
       ELSE /\ position' = timed_event.absolute_time
            /\ pc' = "Running"
            /\ note' = -1
            /\ emitted' = << >>
            /\ UNCHANGED << micros_per_tick, cur_string_positions, strings_played,
                            group_strums, last_string_usage_time, now,
                            song_elapsed_micros >>
    /\ input' = NoCheck
    /\ UNCHANGED << config_vars, shift, events, tracks, paused, rshift_pressed,
                    final_tick, last_tick, timed_event, current_tick,
                    ticks_while_paused, polls >>

\* lines 476-485: the event queue is exhausted (the binding timed_event is gone)
EndOfStream ==
    /\ pc = "Running"
    /\ events = << >>
    /\ IF loop_midi
       THEN /\ events' = prepare_events(events, smf, tracks)
            /\ pc' = "LoopStart"
       ELSE /\ pc' = "Finished"
            /\ UNCHANGED events
    /\ timed_event' = NoEvent
    /\ note' = -1
    /\ emitted' = << >>
    /\ input' = NoCheck
    /\ UNCHANGED << config_vars, shift, micros_per_tick, tracks, cur_string_positions,
                    strings_played, last_string_usage_time, now, paused, rshift_pressed,
                    song_elapsed_micros, final_tick, last_tick, current_tick, position,
                    group_strums, ticks_while_paused, polls >>

Next ==
    \/ New
    \/ PlayStart
    \/ LoopStart
    \/ PopEvent
    \/ Tick
    \/ PausePoll
    \/ Dispatch
    \/ EndOfStream

Spec == Init /\ [][Next]_vars

\* play runs on one thread, which takes its next step as long as it has one
SpecLive == Init /\ [][Next]_vars /\ WF_vars(Next)

\* the shift and the transposition, over generated note lists
InitShift ==
    /\ smf \in ShiftScores
    /\ settings_tracks = Some({0})
    /\ loop_midi = FALSE
    /\ should_sing = FALSE
    /\ sing_above \in SingThresholds
    /\ playback_speed = 1
    /\ input_sleep_duration \in InputSleeps
    /\ Unconstructed

SpecShift == InitShift /\ [][Next]_vars

\* the construction of the merged queue, over generated scores and selections
InitMerge ==
    /\ smf \in MergeScores
    /\ settings_tracks \in MergeSelections
    /\ loop_midi = FALSE
    /\ should_sing = FALSE
    /\ sing_above \in SingThresholds
    /\ playback_speed = 1
    /\ input_sleep_duration \in InputSleeps
    /\ Unconstructed

SpecMerge == InitMerge /\ [][New]_vars

(***************************************************************************)
(* Properties                                                              *)
(***************************************************************************)
Shifts == MinShift .. MaxShift

\* the number of pitches of notes that shift S brings into [40, 79]
InWindow(notes, S) == Cardinality({i \in DOMAIN notes : 40 <= notes[i] + S /\ notes[i] + S <= 79})

\* the reference choice: a shift of maximal count, of least magnitude among those,
\* the negative one of two of the same magnitude
ReferenceShift(notes) ==
    LET count  == [S \in Shifts |-> InWindow(notes, S)]
        counts == {count[S] : S \in Shifts}
        most   == CHOOSE c \in counts : \A d \in counts : c >= d
        best   == {S \in Shifts : count[S] = most}
        near   == {S \in best : \A T \in best : Abs(S) <= Abs(T)}
    IN  CHOOSE S \in near : \A T \in near : S <= T

\* C1: calculate_optimal_shift returns the shift of the reference operator: the
\* count of pitches in [40, 79] is maximal over [-127, 127], |S| is least among the
\* shifts of maximal count, the negative one wins a tie of magnitude; 0 for no note
C1_OptimalShift ==
    pc = "Idle" =>
        /\ shift = ReferenceShift(get_notes(smf))
        /\ (get_notes(smf) = << >> => shift = 0)

\* a negative shift chosen over the positive one of the same magnitude and count
C1_Witness ==
    /\ pc = "Idle"
    /\ shift < 0
    /\ InWindow(get_notes(smf), -shift) = InWindow(get_notes(smf), shift)

\* C2: within one loop iteration of play, the absolute tick of each event popped
\* is no less than the tick of the event popped before it and than last_tick, so
\* wait_ticks is never negative
C2_PoppedTicksNonDecreasing ==
    [][(pc = "Running" /\ events # << >>) =>
          /\ timed_event'.absolute_time >= timed_event.absolute_time
          /\ timed_event'.absolute_time >= last_tick
          /\ pc' # "PanicSubOverflow"]_vars

\* an event of the second track popped after a wait, later than an earlier event
C2_Witness ==
    /\ pc = "Waiting"
    /\ last_tick > 0
    /\ timed_event.absolute_time > last_tick
    /\ timed_event.track = 1
    /\ events # << >>

\* the places << track, index >> of the events of the score
Places(score) ==
    UNION {{<< n, i >> : i \in DOMAIN score.tracks[n + 1]} :
               n \in 0 .. (Len(score.tracks) - 1)}
EventAt(score, p) == score.tracks[p[1] + 1][p[2]]
MetaAt(score, p) == EventAt(score, p).kind \in MetaKinds

\* the sum of the deltas of the first i events of a track
RECURSIVE SumDeltas(_, _)
SumDeltas(track, i) == IF i = 0 THEN 0 ELSE track[i].delta + SumDeltas(track, i - 1)

ScheduledAt(score, p) ==
    [absolute_time |-> SumDeltas(score.tracks[p[1] + 1], p[2]),
     event |-> EventAt(score, p), track |-> p[1]]

\* the heap holds exactly the scheduled events of the places, as a multiset
HoldsExactly(heap, score, places) ==
    /\ Len(heap) = Cardinality(places)
    /\ \A i \in DOMAIN heap : \E p \in places : ScheduledAt(score, p) = heap[i]
    /\ \A p \in places :
          Cardinality({i \in DOMAIN heap : heap[i] = ScheduledAt(score, p)})
              = Cardinality({q \in places : ScheduledAt(score, q) = ScheduledAt(score, p)})

\* C3: with no track selected (None or an empty selection) every track is active:
\* the merged stream holds the events of all tracks, the note events included
C3_NoSelectionPlaysAll ==
    (pc = "Idle" /\ UnwrapOrEmpty(settings_tracks) = {}) =>
        HoldsExactly(events, smf, Places(smf))

\* C4: for a non-empty selection the stream holds every meta event of every track
\* and every non-meta event of the selected tracks, nothing else, each at the sum
\* of the deltas of its track up to it; its size is the number of the ones plus
\* the number of the others
C4_SelectedStream ==
    (pc = "Idle" /\ tracks # {}) =>
        /\ HoldsExactly(events, smf,
                        {p \in Places(smf) : MetaAt(smf, p) \/ p[1] \in tracks})
        /\ Len(events) = Cardinality({p \in Places(smf) : MetaAt(smf, p)})
                         + Cardinality({p \in Places(smf) :
                                            ~MetaAt(smf, p) /\ p[1] \in tracks})

\* a meta event of a track that is not selected, after a skipped note event
C4_Witness ==
    /\ pc = "Idle"
    /\ tracks # {}
    /\ \E p \in Places(smf) :
          /\ p[1] \notin tracks
          /\ p[2] > 1
          /\ MetaAt(smf, p)
          /\ ~MetaAt(smf, << p[1], p[2] - 1 >>)
          /\ EventAt(smf, << p[1], p[2] - 1 >>).delta > 0
          /\ \E i \in DOMAIN events : events[i] = ScheduledAt(smf, p)

\* C5: between two resets of strings_played no string is strummed twice
C5_StringOncePerGroup ==
    \A i, j \in DOMAIN group_strums : group_strums[i] = group_strums[j] => i = j

\* a note left without a string in a group in which a string was strummed
C5_Witness ==
    /\ note # -1
    /\ StrumsOf(emitted) = << >>
    /\ group_strums # << >>

NearestBound(x) == IF x < 40 THEN 40 ELSE IF x > 79 THEN 79 ELSE x

\* C6: the pitch handed to the string assignment is the bound of [40, 79] nearest
\* to key + shift, or key + shift inside it; the i8 addition and the cast to u8
\* neither change that nor fail
C6_NearestBound ==
    /\ note # -1 => note = NearestBound(timed_event.event.key + shift)
    /\ pc # "PanicAddOverflow"

\* C7: once the paused flag is true at most the tick in progress is slept; the
\* elapsed time and the tick cursor then stay until the flag is false again
C7_PauseHaltsTicks == ticks_while_paused <= 1

\* C8: a check follows every tick slept, every pause poll and every pop; once a
\* check sees Escape play has returned, and nothing happens after that
C8_Cancel ==
    /\ []("Escape" \in input.keys => pc = "Interrupted")
    /\ [][(pc = "Waiting" \/ (pc = "PauseCheck" /\ paused)
              \/ (pc = "Running" /\ events # << >>)) => input'.checked]_vars
    /\ [][pc = "Interrupted" => UNCHANGED vars]_vars

\* interrupted while paused, with looping enabled and events left
C8_Witness ==
    /\ pc = "Interrupted"
    /\ "Escape" \in input.keys
    /\ paused
    /\ loop_midi
    /\ events # << >>

\* C9: with looping, an exhausted stream leads to a new iteration, which starts
\* with last_tick 0, the elapsed time 0 and the queue holding the scheduled events
\* of the first iteration, each once
C9_LoopRestart ==
    /\ []((pc = "Running" /\ timed_event = NoEvent) =>
             /\ last_tick = 0
             /\ song_elapsed_micros = 0
             /\ HoldsExactly(events, smf,
                             {p \in Places(smf) : MetaAt(smf, p) \/ p[1] \in tracks}))
    /\ [][(pc = "Running" /\ events = << >> /\ loop_midi) => pc' = "LoopStart"]_vars
    /\ [][pc = "LoopStart" => (pc' = "Running" /\ timed_event' = NoEvent)]_vars

\* the start of an iteration after one in which a note was played
C9_Witness ==
    /\ pc = "Running"
    /\ timed_event = NoEvent
    /\ loop_midi
    /\ now > 0
    /\ events # << >>

\* C10: a score whose timing is not metrical is rejected by WebfishingPlayer::new:
\* no player exists for it
C10_TimecodeRejected ==
    smf.timing # "Metrical" => pc \in {"Unconstructed", "ConstructionFailed"}

\* the number of actions of one kind among the actions acts
CountOf(acts, kind) == Cardinality({i \in DOMAIN acts : acts[i][1] = kind})

\* the positions of play from the head of its loop on, until it returns
LoopPcs == {"LoopStart", "Running", "Waiting", "PauseCheck"}

\* an event that is not a note-on of velocity > 0
Silent(e) == ~(e.kind = "NoteOn" /\ e.vel > 0)

\* C11: in the event loop of play a positioning or strum action is emitted only by
\* the dispatch of a note-on of velocity > 0, which emits at most one of each; the
\* dispatch of any other event (note-off, note-on of velocity 0, tempo, other meta)
\* emits nothing, and the loop goes on to the next event with the event consumed
C11_ActuatorOnlyOnNoteOn ==
    [][(pc \in LoopPcs) =>
          /\ CountOf(emitted', "fret") <= 1
          /\ CountOf(emitted', "strum") <= 1
          /\ (CountOf(emitted', "fret") + CountOf(emitted', "strum") > 0 =>
                 /\ pc = "PauseCheck"
                 /\ ~paused
                 /\ timed_event.event.kind = "NoteOn"
                 /\ timed_event.event.vel > 0)
          /\ (pc = "PauseCheck" /\ ~paused /\ Silent(timed_event.event)) =>
                 (/\ emitted' = << >>
                  /\ pc' = "Running"
                  /\ events' = events
                  /\ position' = timed_event.absolute_time)]_vars

\* a note-on of velocity 0 dispatched without any action, after a note was played
C11_Witness ==
    /\ pc = "Running"
    /\ ~input.checked
    /\ timed_event.event.kind = "NoteOn"
    /\ timed_event.event.vel = 0
    /\ emitted = << >>
    /\ now > 0

\* C12: a positioning action is emitted for a string exactly when the fret set
\* differs from the fret remembered for it (0 for strings 0..5 after construction),
\* so setting the same fret again emits nothing; the remembered frets change only
\* with such an action, to its fret, whatever ticks, groups or iterations pass
C12_SetFretIdempotent ==
    /\ [](pc = "Idle" => \A s \in Strings : cur_string_positions[s] = 0)
    /\ [][(pc # "Unconstructed") =>
             /\ DOMAIN cur_string_positions \subseteq DOMAIN cur_string_positions'
             /\ \A s \in DOMAIN cur_string_positions' :
                    LET was  == IF s \in DOMAIN cur_string_positions
                                THEN cur_string_positions[s] ELSE -1
                        sent == {i \in DOMAIN emitted' :
                                    emitted'[i][1] = "fret" /\ emitted'[i][2] = s}
                    IN  /\ (cur_string_positions'[s] # was) <=> (sent # {})
                        /\ \A i \in sent : emitted'[i][3] = cur_string_positions'[s]
             /\ \A i \in DOMAIN emitted' :
                    emitted'[i][1] = "fret" => emitted'[i][2] \in DOMAIN cur_string_positions'
             /\ (note' # -1 /\ CountOf(emitted', "strum") = 1 /\ CountOf(emitted', "fret") = 0) =>
                    \E s \in Strings :
                       /\ StrumsOf(emitted') = << s >>
                       /\ cur_string_positions[s] = note' - StringOpenNote(s)]_vars
    /\ [](pc # "Unconstructed" =>
             \A s \in 0 .. NumStrings, f \in 0 .. (FretsPerString - 1) :
                LET once  == set_fret(cur_string_positions, s, f)
                    twice == set_fret(once.positions, s, f)
                IN  Len(once.emitted) + Len(twice.emitted) <= 1)

\* a string strummed in a later group at the fret it was left at, without a
\* positioning action
C12_Witness ==
    /\ note # -1
    /\ last_tick > 0
    /\ CountOf(emitted, "strum") = 1
    /\ CountOf(emitted, "fret") = 0
    /\ \E s \in Strings : StrumsOf(emitted) = << s >> /\ cur_string_positions[s] > 0

\* C13: from the fresh string state the pitches 45, 50, 55, dispatched in that
\* order at one tick, are strummed on the strings 1 (A), 2 (D) and 3 (G), each at
\* fret 0
C13_ChordOnOpenStrings ==
    (smf = ChordScore /\ note # -1 /\ now <= 3) =>
        /\ note = << 45, 50, 55 >>[now]
        /\ StrumsOf(emitted) = << now >>
        /\ cur_string_positions[now] = 0

\* C14: two events of one iteration popped one after the other at the same
\* absolute tick come in ascending order of their tracks
C14_TrackOrderOnTies ==
    [][(pc = "Running" /\ events # << >> /\ timed_event.event.kind # "None"
          /\ timed_event'.absolute_time = timed_event.absolute_time) =>
             timed_event'.track >= timed_event.track]_vars

\* C15: without looping, once play is called on a non-empty queue, if no poll
\* sees Escape and the paused flag is false again and again, play reaches Finished
\* with the queue empty; each pop takes one event off the queue, and nothing
\* happens after Finished
C15_PlayFinishes ==
    /\ ((/\ <>(pc = "Idle" /\ ~loop_midi /\ events # << >>)
         /\ []("Escape" \notin input.keys)
         /\ []<>(~paused))
            => <>(pc = "Finished" /\ events = << >>))
    /\ [][(pc = "Running" /\ events # << >>) => Len(events') = Len(events) - 1]_vars
    /\ [][(pc = "Finished") => UNCHANGED vars]_vars

\* the lowest pitch of each string (low E, A, D, G, B, high E)
LowestNote == << 40, 45, 50, 55, 59, 64 >>

\* the strings free in the group whose window of 16 semitones holds the pitch p
FreeCovering(p, played) ==
    {s \in Strings : ~played[s] /\ LowestNote[s + 1] <= p /\ p <= LowestNote[s + 1] + 15}

\* the least recently used string of a non-empty set, the lowest index on a tie
LeastRecentlyUsed(S, usage) ==
    CHOOSE s \in S : \A t \in S : usage[s] < usage[t] \/ (usage[s] = usage[t] /\ s <= t)

\* C16: a note handed to find_best_string is strummed on the least recently used
\* of the strings free in the group whose window holds it (the lowest index on
\* equal timestamps), at the fret pitch - lowest note of the string, and only that
\* string's timestamp changes, to the current time
C16_LeastRecentlyUsed ==
    [][(note' # -1 /\ FreeCovering(note', strings_played) # {}) =>
          LET best == LeastRecentlyUsed(FreeCovering(note', strings_played),
                                        last_string_usage_time)
          IN  /\ StrumsOf(emitted') = << best >>
              /\ cur_string_positions'[best] = note' - LowestNote[best + 1]
              /\ last_string_usage_time' =
                     [last_string_usage_time EXCEPT ![best] = now']]_vars

\* a note strummed on a string that is not the lowest free one holding it, which
\* was used more recently
C16_Witness ==
    /\ note # -1
    /\ \E s, t \in Strings :
          /\ StrumsOf(emitted) = << s >>
          /\ t < s
          /\ ~strings_played[t]
          /\ LowestNote[t + 1] <= note /\ note <= LowestNote[t + 1] + 15
          /\ last_string_usage_time[t] > 0
          /\ last_string_usage_time[s] = now

\* C17: a note for which no free string holds the pitch is skipped: no positioning
\* and no strum action, the played flags, the timestamps and the remembered frets
\* stay as they are, and the loop goes on to the next event
C17_SkippedNote ==
    [][(note' # -1 /\ FreeCovering(note', strings_played) = {}) =>
          /\ CountOf(emitted', "fret") = 0
          /\ CountOf(emitted', "strum") = 0
          /\ strings_played' = strings_played
          /\ last_string_usage_time' = last_string_usage_time
          /\ cur_string_positions' = cur_string_positions
          /\ pc' = "Running"
          /\ events' = events]_vars

\* a note skipped in a group in which its only string was strummed, with events
\* left to pop
C17_Witness ==
    /\ pc = "Running"
    /\ note # -1
    /\ CountOf(emitted, "strum") = 0
    /\ FreeCovering(note, strings_played) = {}
    /\ events # << >>

\* C18: over the polls of check_inputs that read the pause key, the paused flag
\* flips at each poll that sees the key held after a poll that did not, and at no
\* other poll (not while the key stays held), so the flag is the parity of those
\* polls; a poll that sees Escape ends play before it reads the pause key
C18_PauseEdgeDetected ==
    /\ [](paused = polls.parity)
    /\ [][(input'.checked /\ "Escape" \notin input'.keys) =>
             (paused' # paused) <=> ("RShift" \in input'.keys /\ ~polls.held)]_vars
    /\ [][(~input'.checked \/ "Escape" \in input'.keys) => paused' = paused]_vars

\* a tick slept with the flag true before and after it and the key still held
C18_Witness ==
    /\ paused
    /\ polls.held
    /\ ticks_while_paused >= 1
    /\ input.checked
    /\ "RShift" \in input.keys

\* C19: every pop and every dispatch happens with the paused flag false: while
\* the flag is true the queue keeps its elements, the tempo does not change and no
\* action is emitted
C19_NoProgressWhilePaused ==
    /\ [][(pc # "Unconstructed" /\ paused) =>
             /\ events' = events
             /\ micros_per_tick' = micros_per_tick
             /\ emitted' = << >>
             /\ pc' \in {"Waiting", "PauseCheck", "Interrupted"}]_vars
    /\ [](pc = "Running" => ~paused)

\* a pause poll with the flag true, the popped event held back, events left
C19_Witness ==
    /\ pc = "PauseCheck"
    /\ paused
    /\ ticks_while_paused = 0
    /\ input.checked
    /\ current_tick = timed_event.absolute_time
    /\ timed_event.event.kind = "NoteOn"
    /\ events # << >>

\* C20: a note-on of velocity > 0 triggers the sing action only if the note got a
\* string, singing is enabled and the clamped pitch is at least the threshold; a
\* note that got no string triggers no action at all
C20_SingOnlyWithString ==
    /\ CountOf(emitted, "sing") > 0 =>
          /\ CountOf(emitted, "strum") = 1
          /\ should_sing
          /\ note >= sing_above
    /\ (note # -1 /\ CountOf(emitted, "strum") = 0) => emitted = << >>

\* C21: at the start of every loop iteration the six strings_played flags are
\* clear, whatever strings the last group of the iteration before played
C21_FlagsClearAtRestart ==
    (pc = "Running" /\ timed_event = NoEvent) => \A s \in Strings : ~strings_played[s]

\* the greatest absolute tick of the events scheduled for the selected tracks
MaxScheduledTick(score, selection) ==
    LET ticks == {ScheduledAt(score, p).absolute_time :
                     p \in {q \in Places(score) : MetaAt(score, q) \/ q[1] \in selection}}
    IN  CHOOSE t \in ticks : \A u \in ticks : t >= u

\* C22: the final tick play computes is the greatest absolute tick of the events
\* of the merged queue, and the position reported never exceeds it
C22_FinalTickIsMaximum ==
    (pc \in LoopPcs \cup {"Finished", "Interrupted"}) =>
        /\ final_tick = MaxScheduledTick(smf, tracks)
        /\ position <= final_tick

\* the greatest natural number q with q * b <= a
Floor(a, b) == CHOOSE q \in 0 .. a : q * b <= a /\ a < (q + 1) * b

\* C23: the tick duration is 0 after construction and changes only when a tempo
\* event is dispatched, to floor(microseconds per beat / ticks per beat); every
\* tick slept adds floor(tick duration / speed), of the duration in force, to the
\* elapsed time; a tempo event leaves the shift and the string state alone
C23_TempoSetsTickDuration ==
    /\ [](pc = "Idle" => micros_per_tick = 0)
    /\ [][(pc = "PauseCheck" /\ ~paused /\ timed_event.event.kind = "Tempo") =>
             /\ micros_per_tick' = Floor(timed_event.event.tempo, smf.ticks_per_beat)
             /\ song_elapsed_micros' = song_elapsed_micros
             /\ shift' = shift
             /\ cur_string_positions' = cur_string_positions
             /\ strings_played' = strings_played
             /\ last_string_usage_time' = last_string_usage_time]_vars
    /\ [][(micros_per_tick' # micros_per_tick) =>
             (pc = "PauseCheck" /\ ~paused /\ timed_event.event.kind = "Tempo")]_vars
    /\ [][(pc = "Waiting") =>
             /\ song_elapsed_micros' =
                    song_elapsed_micros + Floor(micros_per_tick, playback_speed)
             /\ micros_per_tick' = micros_per_tick]_vars

\* a tick slept at half of an odd tick duration, after ticks slept at duration 0
C23_Witness ==
    /\ micros_per_tick = 3
    /\ playback_speed = 2
    /\ input.checked
    /\ position = 2
    /\ last_tick = 1
    /\ song_elapsed_micros % 1000 = 1

\* C24: play on an empty queue does not fail: it goes on to Finished without any
\* strum
C24_EmptyStreamFinishes ==
    /\ [][(pc = "Idle" /\ events = << >> /\ smf.timing = "Metrical") =>
             /\ pc' \in {"LoopStart", "Running", "Finished"}
             /\ CountOf(emitted', "strum") = 0]_vars
    /\ [](pc # "PanicNoEvents")

====
